---- MODULE Spec2Model ----
(***************************************************************************)
(* Model of the watchlist acquisition pipeline of PlinkItForMe:            *)
(*   backend/scraper.py  fetch_page, scrape_watchlist_async,               *)
(*                       get_watchlist_movies, get_movie_data              *)
(*   backend/app.py      get_watchlist (the /watchlist/{username} handler) *)
(*                                                                         *)
(* A request runs as a process: cache read, page-1 probe, fan-out of the   *)
(* remaining pages, gather, cache write, then the handler's validation,    *)
(* sampling and poster enrichment.  The upstream site, the poster service  *)
(* and the random source are inputs chosen by the environment.             *)
(*                                                                         *)
(* The handler calls get_watchlist_movies(username, genre=..., decade=...) *)
(* (app.py:33) while the function in scraper.py:157 has the single         *)
(* parameter username.  The model binds the call by username: the scraper  *)
(* never sees genre or decade, they stay in the handler for its own        *)
(* branches (app.py:42-49).                                                *)
(***************************************************************************)
EXTENDS Integers, Sequences, FiniteSets, TLC

\* ------------------------------------------------------------------ bounds
\* Last page fetched.  The code fetches pages 1..20 (scraper.py:140,
\* range(2, 21)); the model scales the fan-out down.
LastPage == 3
\* Seconds that pass in one step of the clock.
TickStep == 10800
\* Griditems on one full page of the upstream site (28 there, scraper.py:137).
PageSize == 2

\* ------------------------------------------------------- program constants
CACHE_EXPIRATION == 21600
MinMovies == 5
SampleSize == 5
TMDB_IMAGE_BASE_URL == "https://image.tmdb.org/t/p/w500"

\* ------------------------------------------------------------ Python values
None == [tag |-> "None"]
Some(v) == [tag |-> "Some", val |-> v]

\* Python truthiness of an Optional[str]: None and "" are falsy.
Truthy(v) == v # None /\ v.val # ""

\* ----------------------------------------------------------- the environment
Procs == {"r1", "r2"}
Usernames == {"alice"}
Genres == {None, Some("horror")}
Decades == {None, Some("1990s")}

\* A griditem of a watchlist page: whether it holds the react-component div,
\* and that div's data-item-name and data-item-slug attributes.
ItemA == [div |-> TRUE, name |-> Some(<<"A", " ", "(", "1", "9", "9", "9", ")">>),
          slug |-> Some("a")]
ItemB == [div |-> TRUE, name |-> Some(<<"B">>), slug |-> None]
ItemC == [div |-> TRUE, name |-> Some(<<"C", "(", "2", "0", "0", "1", ")">>),
          slug |-> Some("c")]
ItemD == [div |-> TRUE, name |-> Some(<<"(", "2", "0", "1", "0", ")", " ", "D">>),
          slug |-> Some("d")]
ItemE == [div |-> TRUE, name |-> Some(<<"E", " ", " ", "(", "1", "9", "8", "4", ")">>),
          slug |-> Some("")]
ItemF == [div |-> TRUE, name |-> Some(<<"F", " ", "(", "2", "0", "2", "0", ")", "\n">>),
          slug |-> Some("f")]
ItemNoDiv == [div |-> FALSE, name |-> None, slug |-> None]
ItemNoName == [div |-> TRUE, name |-> None, slug |-> Some("x")]

\* The films a user's watchlist upstream is drawn from: a watchlist is a
\* prefix of the catalogue, rendered PageSize griditems to a page.
Catalogue == <<ItemA, ItemB, ItemC, ItemD, ItemE, ItemF>>

Watchlists(cat) == {SubSeq(cat, 1, n) : n \in 0..Len(cat)}

\* The griditems of page k of watchlist wl; none past its end.
Slice(wl, k) ==
    LET first == (k - 1) * PageSize + 1
        last == IF k * PageSize < Len(wl) THEN k * PageSize ELSE Len(wl)
    IN  IF first > last THEN <<>> ELSE SubSeq(wl, first, last)

\* What one GET of page k can end in: a network exception, a status other
\* than 200, or a 200 whose body holds the page's griditems, possibly after a
\* griditem without the div or before one without a name, or no griditem.
Responses(wl, k) ==
    {[kind |-> "exception"]}
    \cup {[kind |-> "http", status |-> s, items |-> <<>>] : s \in {404, 500}}
    \cup {[kind |-> "http", status |-> 200, items |-> b] :
            b \in {Slice(wl, k), <<>>, <<ItemNoDiv>> \o Slice(wl, k),
                   Slice(wl, k) \o <<ItemNoName>>}}

\* What one TMDB search can end in.
TmdbResponses ==
    { [kind |-> "exception"],
      [kind |-> "json", results |-> <<>>],
      [kind |-> "json", results |-> <<[poster_path |-> None]>>],
      [kind |-> "json", results |-> <<[poster_path |-> Some("/p.jpg")]>>] }

VARIABLES
    procs,      \* the request processes that may run
    catalog,    \* the films upstream watchlists are drawn from
    site,       \* the watchlist the upstream site serves to each request
    cache,      \* the Redis store: key -> [value, ttl]
    pc,         \* each request's position
    req,        \* each request's username, genre, decade
    path,       \* "hit" / "miss" once the cache was read
    issued,     \* the page numbers this request has sent a GET for, in order
    wrote,      \* number of setex calls of this request
    probe,      \* what the GET of page 1 ended in (None before it completes)
    page1,      \* page_1_movies
    results,    \* the fan-out tasks' results, by page
    movies,     \* the value get_watchlist_movies returns
    sample,     \* random_movies, as positions of movies
    idx,        \* position of the enrichment loop in sample
    lookups,    \* number of get_movie_data calls of this request
    response    \* the handler's answer

vars == <<procs, catalog, site, cache, pc, req, path, issued, wrote, probe, page1,
          results, movies, sample, idx, lookups, response>>

\* ------------------------------------------------------------ fetch_page
Digits == <<"0", "1", "2", "3", "4", "5", "6", "7", "8", "9">>
IsDigit(c) == \E i \in 1..10 : Digits[i] = c
DigitVal(c) == (CHOOSE i \in 1..10 : Digits[i] = c) - 1
IsSpace(c) == c \in {" ", "\t", "\n", "\r", "\f"}

\* Where "$" matches in s: at the end, and before a final newline.
EndPositions(s) ==
    {Len(s)} \cup (IF Len(s) > 0 /\ s[Len(s)] = "\n" THEN {Len(s) - 1} ELSE {})

\* The positions e at which \((\d{4})\)$ ends a match in s.
YearEnds(s) ==
    {e \in EndPositions(s) :
        /\ e >= 6
        /\ s[e - 5] = "("
        /\ \A i \in (e - 4)..(e - 1) : IsDigit(s[i])
        /\ s[e] = ")"}

\* re.search(r'\((\d{4})\)$', full_name)
YearMatch(s) == YearEnds(s) # {}

\* int(year_match.group(1))
YearOf(s) ==
    LET e == CHOOSE x \in YearEnds(s) : TRUE
    IN  1000 * DigitVal(s[e - 4]) + 100 * DigitVal(s[e - 3])
        + 10 * DigitVal(s[e - 2]) + DigitVal(s[e - 1])

\* re.sub(r'\s*\(\d{4}\)$', '', full_name): the match starts at the first
\* position of the whitespace run before the parenthesis.
StripYear(s) ==
    LET e == CHOOSE x \in YearEnds(s) : TRUE
        starts == {i \in 1..(e - 5) : \A j \in i..(e - 6) : IsSpace(s[j])}
        b == CHOOSE i \in starts : \A j \in starts : i <= j
    IN  SubSeq(s, 1, b - 1) \o SubSeq(s, e + 1, Len(s))

\* One movie dictionary (scraper.py:84-104).
ParseItem(it) ==
    LET full_name == it.name.val
        m == YearMatch(full_name)
    IN  [title |-> IF m THEN StripYear(full_name) ELSE full_name,
         year |-> IF m THEN Some(YearOf(full_name)) ELSE None,
         url |-> IF Truthy(it.slug)
                 THEN Some("https://letterboxd.com/film/" \o it.slug.val \o "/")
                 ELSE None,
         poster |-> None]

RECURSIVE ParseItems(_)
ParseItems(items) ==
    IF items = <<>> THEN <<>>
    ELSE IF Head(items).div
         THEN <<ParseItem(Head(items))>> \o ParseItems(Tail(items))
         ELSE ParseItems(Tail(items))

\* fetch_page: the list one page contributes.  A status other than 200, a
\* body without griditems and any exception (a network error, or re.search
\* on a missing data-item-name) all give the empty list.
FetchPage(resp) ==
    IF resp.kind = "exception" THEN <<>>
    ELSE IF resp.status # 200 THEN <<>>
    ELSE IF resp.items = <<>> THEN <<>>
    ELSE IF \E i \in 1..Len(resp.items) :
                resp.items[i].div /\ resp.items[i].name = None
         THEN <<>>
    ELSE ParseItems(resp.items)

\* ------------------------------------------------- scrape_watchlist_async
Pending == [tag |-> "pending"]
Done(list) == [tag |-> "done", val |-> list]
FanOut == 2..LastPage

\* The loop over gather's results, which come in task order (page 2, 3, ...).
RECURSIVE ExtendFrom(_, _)
ExtendFrom(res, k) ==
    IF k > LastPage THEN <<>> ELSE res[k].val \o ExtendFrom(res, k + 1)

\* Mutant: the tasks' lists taken from the last page down.
RECURSIVE ExtendDown(_, _)
ExtendDown(res, k) ==
    IF k < 2 THEN <<>> ELSE res[k].val \o ExtendDown(res, k - 1)

AllMovies_ReverseTasks(p1, res) == p1 \o ExtendDown(res, LastPage)

AllMovies(p1, res) == p1 \o ExtendFrom(res, 2)

\* ---------------------------------------------------------- cache and JSON
JString(s) == [j |-> "string", s |-> s]
JNumber(n) == [j |-> "number", n |-> n]
JNull == [j |-> "null"]
JOptString(v) == IF v = None THEN JNull ELSE JString(v.val)
JOptNumber(v) == IF v = None THEN JNull ELSE JNumber(v.val)

\* json.dumps of one movie dictionary: the members in insertion order.
DumpMovie(m) ==
    << <<"title", JString(m.title)>>, <<"year", JOptNumber(m.year)>>,
       <<"url", JOptString(m.url)>>, <<"poster", JOptString(m.poster)>> >>

JsonDumps(list) == [j |-> "array", elems |-> [i \in 1..Len(list) |-> DumpMovie(list[i])]]

Member(obj, k) == obj[CHOOSE i \in 1..Len(obj) : obj[i][1] = k][2]
PyOpt(v) == IF v.j = "null" THEN None ELSE IF v.j = "number" THEN Some(v.n) ELSE Some(v.s)

LoadMovie(obj) ==
    [title |-> Member(obj, "title").s, year |-> PyOpt(Member(obj, "year")),
     url |-> PyOpt(Member(obj, "url")), poster |-> PyOpt(Member(obj, "poster"))]

\* Mutant: the array is read back from its last element.
JsonLoads_Reversed(doc) ==
    [i \in 1..Len(doc.elems) |-> LoadMovie(doc.elems[Len(doc.elems) + 1 - i])]

JsonLoads(doc) == [i \in 1..Len(doc.elems) |-> LoadMovie(doc.elems[i])]

\* The length of the JSON text, in tokens: the brackets and the elements.
TextLen(doc) == 2 + Len(doc.elems)

\* f"watchlist:{username}"
CacheKey(username) == "watchlist:" \o username

RedisGet(c, k) == IF k \in DOMAIN c THEN Some(c[k].value) ELSE None

RedisSetex(c, k, ttl, v) ==
    [x \in DOMAIN c \cup {k} |-> IF x = k THEN [value |-> v, ttl |-> ttl] ELSE c[x]]

\* Mutant: an entry whose time is just up stays in the store.
Expire_KeepsSpent(c, dt) ==
    [x \in {k \in DOMAIN c : c[k].ttl >= dt} |-> [value |-> c[x].value, ttl |-> c[x].ttl - dt]]

\* The store's own expiry, after dt seconds.
Expire(c, dt) ==
    [x \in {k \in DOMAIN c : c[k].ttl > dt} |-> [value |-> c[x].value, ttl |-> c[x].ttl - dt]]

\* "if cached_data:"
CacheHit(cached) == cached # None /\ TextLen(cached.val) > 0

\* --------------------------------------------------------- get_movie_data
\* Mutant: a first result without poster_path still yields a URL.
GetMovieData_NoPathCheck(tmdb) ==
    IF tmdb.kind = "exception" THEN None
    ELSE IF tmdb.results # <<>>
         THEN Some(TMDB_IMAGE_BASE_URL \o
                   (IF Truthy(tmdb.results[1].poster_path)
                    THEN tmdb.results[1].poster_path.val ELSE "None"))
         ELSE None

GetMovieData(tmdb) ==
    IF tmdb.kind = "exception" THEN None
    ELSE IF tmdb.results # <<>> /\ Truthy(tmdb.results[1].poster_path)
         THEN Some(TMDB_IMAGE_BASE_URL \o tmdb.results[1].poster_path.val)
         ELSE None

\* ---------------------------------------------------------- get_watchlist
NoError == [status |-> 200]

\* Mutant: the check of the minimum count is missing.
HttpError_NoMinimum(mv, genre, decade) ==
    IF mv = None THEN [status |-> 404, detail |-> "user_not_found"]
    ELSE IF Len(mv.val) = 0 THEN [status |-> 404, detail |-> "no_movies"]
    ELSE NoError

\* The HTTPException the handler raises for the list it got, if any.
HttpError(mv, genre, decade) ==
    IF mv = None THEN [status |-> 404, detail |-> "user_not_found"]
    ELSE IF Len(mv.val) = 0
         THEN [status |-> 404,
               detail |-> IF Truthy(genre) /\ Truthy(decade) THEN "no_movies_filters_both"
                          ELSE IF Truthy(genre) THEN "no_movies_filter_genre"
                          ELSE IF Truthy(decade) THEN "no_movies_filter_decade"
                          ELSE "no_movies"]
    ELSE IF Len(mv.val) < MinMovies
         THEN [status |-> 400, detail |-> "not_enough_movies:" \o ToString(Len(mv.val))]
    ELSE NoError

Min(a, b) == IF a < b THEN a ELSE b

\* Mutant: random.choices instead of random.sample (with replacement).
RandomSample_WithReplacement(n, k) == [1..k -> 1..n]

\* random.sample(movies, k): k distinct positions of the list, in any order.
RandomSample(n, k) ==
    {s \in [1..k -> 1..n] : \A i, j \in 1..k : i # j => s[i] # s[j]}

\* Mutant: count reports the sample instead of the full list.
Payload_CountSelected(username, list, smp) ==
    [status |-> 200, username |-> username, count |-> Len(smp),
     selected_count |-> Len(smp), movies |-> [i \in 1..Len(smp) |-> list[smp[i]]]]

\* The returned dictionary (app.py:66-71).
Payload(username, list, smp) ==
    [status |-> 200, username |-> username, count |-> Len(list),
     selected_count |-> Len(smp), movies |-> [i \in 1..Len(smp) |-> list[smp[i]]]]

\* ------------------------------------------------------------------- Init
NoRequest == [username |-> "", genre |-> None, decade |-> None]
NoResponse == [status |-> 0]

Init ==
    /\ procs = {"r1"}
    /\ catalog = Catalogue
    /\ site = [p \in Procs |-> <<>>]
    /\ cache = <<>>
    /\ pc = [p \in Procs |-> "idle"]
    /\ req = [p \in Procs |-> NoRequest]
    /\ path = [p \in Procs |-> "none"]
    /\ issued = [p \in Procs |-> <<>>]
    /\ wrote = [p \in Procs |-> 0]
    /\ probe = [p \in Procs |-> None]
    /\ page1 = [p \in Procs |-> <<>>]
    /\ results = [p \in Procs |-> [k \in FanOut |-> Pending]]
    /\ movies = [p \in Procs |-> None]
    /\ sample = [p \in Procs |-> <<>>]
    /\ idx = [p \in Procs |-> 0]
    /\ lookups = [p \in Procs |-> 0]
    /\ response = [p \in Procs |-> NoResponse]

\* ---------------------------------------------------------------- actions
\* A request arrives at the handler.
Start(p) ==
    /\ p \in procs
    /\ pc[p] = "idle"
    /\ \E u \in Usernames, g \in Genres, d \in Decades :
          req' = [req EXCEPT ![p] = [username |-> u, genre |-> g, decade |-> d]]
    /\ pc' = [pc EXCEPT ![p] = "cache_get"]
    /\ UNCHANGED <<procs, catalog, site, cache, path, issued, wrote, probe, page1, results,
                   movies, sample, idx, lookups, response>>

\* Mutant: the return on a cache hit is missing, the scrape runs anyway.
CacheGet_NoReturnOnHit(p) ==
    /\ pc[p] = "cache_get"
    /\ LET cached == RedisGet(cache, CacheKey(req[p].username))
       IN  path' = [path EXCEPT ![p] = IF CacheHit(cached) THEN "hit" ELSE "miss"]
    /\ pc' = [pc EXCEPT ![p] = "page1"]
    /\ UNCHANGED <<procs, catalog, site, cache, req, issued, wrote, probe, page1, results,
                   movies, sample, idx, lookups, response>>

\* get_watchlist_movies, step 1: the cache read and, on a hit, the return.
CacheGet(p) ==
    /\ pc[p] = "cache_get"
    /\ LET cached == RedisGet(cache, CacheKey(req[p].username))
       IN  IF CacheHit(cached)
           THEN /\ movies' = [movies EXCEPT ![p] = Some(JsonLoads(cached.val))]
                /\ path' = [path EXCEPT ![p] = "hit"]
                /\ pc' = [pc EXCEPT ![p] = "handler"]
           ELSE /\ movies' = movies
                /\ path' = [path EXCEPT ![p] = "miss"]
                /\ pc' = [pc EXCEPT ![p] = "page1"]
    /\ UNCHANGED <<procs, catalog, site, cache, req, issued, wrote, probe, page1, results,
                   sample, idx, lookups, response>>

\* scrape_watchlist_async: the GET of page 1 is sent.
StartPage1(p) ==
    /\ pc[p] = "page1"
    /\ \E wl \in Watchlists(catalog) : site' = [site EXCEPT ![p] = wl]
    /\ issued' = [issued EXCEPT ![p] = Append(@, 1)]
    /\ pc' = [pc EXCEPT ![p] = "page1_wait"]
    /\ UNCHANGED <<procs, catalog, cache, req, path, wrote, probe, page1, results,
                   movies, sample, idx, lookups, response>>

\* Mutant: the scraped page 1 is cached before it is looked at.
CompletePage1_CachesFirst(p) ==
    /\ pc[p] = "page1_wait"
    /\ \E resp \in Responses(site[p], 1) :
          LET page_1_movies == FetchPage(resp)
          IN  /\ probe' = [probe EXCEPT ![p] = Some(resp)]
              /\ page1' = [page1 EXCEPT ![p] = page_1_movies]
              /\ cache' = RedisSetex(cache, CacheKey(req[p].username),
                                     CACHE_EXPIRATION, JsonDumps(page_1_movies))
              /\ IF page_1_movies = <<>>
                 THEN /\ movies' = [movies EXCEPT ![p] = None]
                      /\ pc' = [pc EXCEPT ![p] = "handler"]
                 ELSE /\ movies' = movies
                      /\ pc' = [pc EXCEPT ![p] = "launch"]
    /\ UNCHANGED <<procs, catalog, site, req, path, issued, wrote, results,
                   sample, idx, lookups, response>>

\* Mutant: the fan-out follows whatever page 1 gave.
CompletePage1_AlwaysLaunches(p) ==
    /\ pc[p] = "page1_wait"
    /\ \E resp \in Responses(site[p], 1) :
          /\ probe' = [probe EXCEPT ![p] = Some(resp)]
          /\ page1' = [page1 EXCEPT ![p] = FetchPage(resp)]
          /\ pc' = [pc EXCEPT ![p] = "launch"]
    /\ UNCHANGED <<procs, catalog, site, cache, req, path, issued, wrote, results,
                   movies, sample, idx, lookups, response>>

\* The page-1 fetch completes; an empty page 1 returns None to the handler.
CompletePage1(p) ==
    /\ pc[p] = "page1_wait"
    /\ \E resp \in Responses(site[p], 1) :
          LET page_1_movies == FetchPage(resp)
          IN  /\ probe' = [probe EXCEPT ![p] = Some(resp)]
              /\ page1' = [page1 EXCEPT ![p] = page_1_movies]
              /\ IF page_1_movies = <<>>
                 THEN /\ movies' = [movies EXCEPT ![p] = None]
                      /\ pc' = [pc EXCEPT ![p] = "handler"]
                 ELSE /\ movies' = movies
                      /\ pc' = [pc EXCEPT ![p] = "launch"]
    /\ UNCHANGED <<procs, catalog, site, cache, req, path, issued, wrote, results,
                   sample, idx, lookups, response>>

\* gather starts the tasks of pages 2..LastPage: each sends its GET.
Launch(p) ==
    /\ pc[p] = "launch"
    /\ issued' = [issued EXCEPT ![p] = @ \o [i \in 1..(LastPage - 1) |-> i + 1]]
    /\ results' = [results EXCEPT ![p] = [k \in FanOut |-> Pending]]
    /\ pc' = [pc EXCEPT ![p] = "gather"]
    /\ UNCHANGED <<procs, catalog, site, cache, req, path, wrote, probe, page1, movies,
                   sample, idx, lookups, response>>

\* Mutant: a task whose GET failed sends it again.
CompletePage_RetriesFailure(p) ==
    /\ pc[p] = "gather"
    /\ \E k \in FanOut :
          /\ results[p][k] = Pending
          /\ \E resp \in Responses(site[p], k) :
                IF resp.kind = "exception"
                THEN /\ issued' = [issued EXCEPT ![p] = Append(@, k)]
                     /\ results' = results
                ELSE /\ issued' = issued
                     /\ results' = [results EXCEPT ![p][k] = Done(FetchPage(resp))]
    /\ UNCHANGED <<procs, catalog, site, cache, pc, req, path, wrote, probe, page1,
                   movies, sample, idx, lookups, response>>

\* One fan-out task completes, in any order.
CompletePage(p) ==
    /\ pc[p] = "gather"
    /\ \E k \in FanOut :
          /\ results[p][k] = Pending
          /\ \E resp \in Responses(site[p], k) :
                results' = [results EXCEPT ![p][k] = Done(FetchPage(resp))]
    /\ UNCHANGED <<procs, catalog, site, cache, pc, req, path, issued, wrote, probe, page1,
                   movies, sample, idx, lookups, response>>

\* Mutant: the aggregator goes on as soon as the first task is done.
Gather_FirstTaskOnly(p) ==
    /\ pc[p] = "gather"
    /\ results[p][2] # Pending
    /\ movies' = [movies EXCEPT ![p] = Some(page1[p] \o results[p][2].val)]
    /\ pc' = [pc EXCEPT ![p] = "cache_set"]
    /\ UNCHANGED <<procs, catalog, site, cache, req, path, issued, wrote, probe, page1,
                   results, sample, idx, lookups, response>>

\* gather returns once every task is done; the lists are concatenated.
Gather(p) ==
    /\ pc[p] = "gather"
    /\ \A k \in FanOut : results[p][k] # Pending
    /\ movies' = [movies EXCEPT ![p] = Some(AllMovies(page1[p], results[p]))]
    /\ pc' = [pc EXCEPT ![p] = "cache_set"]
    /\ UNCHANGED <<procs, catalog, site, cache, req, path, issued, wrote, probe, page1,
                   results, sample, idx, lookups, response>>

\* Mutant: the write adds the list to the entry already under the key.
CacheSet_Appends(p) ==
    /\ pc[p] = "cache_set"
    /\ LET k == CacheKey(req[p].username)
           old == IF k \in DOMAIN cache THEN JsonLoads(cache[k].value) ELSE <<>>
       IN  cache' = RedisSetex(cache, k, CACHE_EXPIRATION, JsonDumps(old \o movies[p].val))
    /\ wrote' = [wrote EXCEPT ![p] = @ + 1]
    /\ pc' = [pc EXCEPT ![p] = "handler"]
    /\ UNCHANGED <<procs, catalog, site, req, path, issued, probe, page1, results, movies,
                   sample, idx, lookups, response>>

\* get_watchlist_movies, step 3: setex of the scraped list.
CacheSet(p) ==
    /\ pc[p] = "cache_set"
    /\ cache' = RedisSetex(cache, CacheKey(req[p].username), CACHE_EXPIRATION,
                           JsonDumps(movies[p].val))
    /\ wrote' = [wrote EXCEPT ![p] = @ + 1]
    /\ pc' = [pc EXCEPT ![p] = "handler"]
    /\ UNCHANGED <<procs, catalog, site, req, path, issued, probe, page1, results, movies,
                   sample, idx, lookups, response>>

\* The handler validates the list and draws the sample (app.py:35-60).
Handler(p) ==
    /\ pc[p] = "handler"
    /\ LET err == HttpError(movies[p], req[p].genre, req[p].decade)
       IN  IF err # NoError
           THEN /\ response' = [response EXCEPT ![p] = err]
                /\ pc' = [pc EXCEPT ![p] = "done"]
                /\ UNCHANGED <<sample, idx>>
           ELSE /\ \E s \in RandomSample(Len(movies[p].val),
                                         Min(SampleSize, Len(movies[p].val))) :
                      sample' = [sample EXCEPT ![p] = s]
                /\ idx' = [idx EXCEPT ![p] = 1]
                /\ pc' = [pc EXCEPT ![p] = "enrich"]
                /\ UNCHANGED response
    /\ UNCHANGED <<procs, catalog, site, cache, req, path, issued, wrote, probe, page1,
                   results, movies, lookups>>

\* Mutant: each turn of the loop stores the list, posters included.
Enrich_WritesThrough(p) ==
    /\ pc[p] = "enrich"
    /\ \E tmdb \in TmdbResponses :
          LET pos == sample[p][idx[p]]
              list == [movies[p].val EXCEPT ![pos].poster = GetMovieData(tmdb)]
          IN  /\ movies' = [movies EXCEPT ![p] = Some(list)]
              /\ cache' = RedisSetex(cache, CacheKey(req[p].username), CACHE_EXPIRATION,
                                     JsonDumps(list))
              /\ lookups' = [lookups EXCEPT ![p] = @ + 1]
              /\ IF idx[p] = Len(sample[p])
                 THEN /\ response' = [response EXCEPT ![p] =
                                         Payload(req[p].username, list, sample[p])]
                      /\ pc' = [pc EXCEPT ![p] = "done"]
                      /\ idx' = idx
                 ELSE /\ idx' = [idx EXCEPT ![p] = @ + 1]
                      /\ UNCHANGED <<response, pc>>
    /\ UNCHANGED <<procs, catalog, site, req, path, issued, wrote, probe, page1,
                   results, sample>>

\* Mutant: the loop walks the full list instead of the sample.
Enrich_WalksFullList(p) ==
    /\ pc[p] = "enrich"
    /\ \E tmdb \in TmdbResponses :
          LET pos == idx[p]
              list == [movies[p].val EXCEPT ![pos].poster = GetMovieData(tmdb)]
          IN  /\ movies' = [movies EXCEPT ![p] = Some(list)]
              /\ lookups' = [lookups EXCEPT ![p] = @ + 1]
              /\ IF idx[p] = Len(sample[p])
                 THEN /\ response' = [response EXCEPT ![p] =
                                         Payload(req[p].username, list, sample[p])]
                      /\ pc' = [pc EXCEPT ![p] = "done"]
                      /\ idx' = idx
                 ELSE /\ idx' = [idx EXCEPT ![p] = @ + 1]
                      /\ UNCHANGED <<response, pc>>
    /\ UNCHANGED <<procs, catalog, site, cache, req, path, issued, wrote, probe, page1,
                   results, sample>>

\* One turn of the enrichment loop (app.py:62-64); after the last one the
\* handler returns the payload.
Enrich(p) ==
    /\ pc[p] = "enrich"
    /\ \E tmdb \in TmdbResponses :
          LET pos == sample[p][idx[p]]
              list == [movies[p].val EXCEPT ![pos].poster = GetMovieData(tmdb)]
          IN  /\ movies' = [movies EXCEPT ![p] = Some(list)]
              /\ lookups' = [lookups EXCEPT ![p] = @ + 1]
              /\ IF idx[p] = Len(sample[p])
                 THEN /\ response' = [response EXCEPT ![p] =
                                         Payload(req[p].username, list, sample[p])]
                      /\ pc' = [pc EXCEPT ![p] = "done"]
                      /\ idx' = idx
                 ELSE /\ idx' = [idx EXCEPT ![p] = @ + 1]
                      /\ UNCHANGED <<response, pc>>
    /\ UNCHANGED <<procs, catalog, site, cache, req, path, issued, wrote, probe, page1,
                   results, sample>>

\* The answer is delivered; the request's locals go away.
Finish(p) ==
    /\ pc[p] = "done"
    /\ pc' = [pc EXCEPT ![p] = "idle"]
    /\ req' = [req EXCEPT ![p] = NoRequest]
    /\ path' = [path EXCEPT ![p] = "none"]
    /\ issued' = [issued EXCEPT ![p] = <<>>]
    /\ wrote' = [wrote EXCEPT ![p] = 0]
    /\ probe' = [probe EXCEPT ![p] = None]
    /\ page1' = [page1 EXCEPT ![p] = <<>>]
    /\ results' = [results EXCEPT ![p] = [k \in FanOut |-> Pending]]
    /\ movies' = [movies EXCEPT ![p] = None]
    /\ sample' = [sample EXCEPT ![p] = <<>>]
    /\ idx' = [idx EXCEPT ![p] = 0]
    /\ lookups' = [lookups EXCEPT ![p] = 0]
    /\ response' = [response EXCEPT ![p] = NoResponse]
    /\ site' = [site EXCEPT ![p] = <<>>]
    /\ UNCHANGED <<procs, catalog, cache>>

\* Time passes: the store ages its entries and drops the expired ones.
Tick ==
    /\ cache # <<>>
    /\ cache' = Expire(cache, TickStep)
    /\ UNCHANGED <<procs, catalog, site, pc, req, path, issued, wrote, probe, page1, results,
                   movies, sample, idx, lookups, response>>

Step(p) ==
    \/ Start(p)
    \/ CacheGet(p)
    \/ StartPage1(p)
    \/ CompletePage1(p)
    \/ Launch(p)
    \/ CompletePage(p)
    \/ Gather(p)
    \/ CacheSet(p)
    \/ Handler(p)
    \/ Enrich(p)
    \/ Finish(p)

Next == (\E p \in Procs : Step(p)) \/ Tick

Spec == Init /\ [][Next]_vars

\* ------------------------------------------------- concurrent requests
\* Two requests run at once.  Their watchlists are drawn from the first films
\* of the catalogue, fewer than the handler's minimum, so that the handler
\* answers each without an enrichment loop: the step Enrich is never reached
\* and is left out of the next-state relation.
RaceFilms == 3

InitRace ==
    /\ procs = Procs
    /\ catalog = SubSeq(Catalogue, 1, RaceFilms)
    /\ site = [p \in Procs |-> <<>>]
    /\ cache = <<>>
    /\ pc = [p \in Procs |-> "idle"]
    /\ req = [p \in Procs |-> NoRequest]
    /\ path = [p \in Procs |-> "none"]
    /\ issued = [p \in Procs |-> <<>>]
    /\ wrote = [p \in Procs |-> 0]
    /\ probe = [p \in Procs |-> None]
    /\ page1 = [p \in Procs |-> <<>>]
    /\ results = [p \in Procs |-> [k \in FanOut |-> Pending]]
    /\ movies = [p \in Procs |-> None]
    /\ sample = [p \in Procs |-> <<>>]
    /\ idx = [p \in Procs |-> 0]
    /\ lookups = [p \in Procs |-> 0]
    /\ response = [p \in Procs |-> NoResponse]

StepRace(p) ==
    \/ Start(p)
    \/ CacheGet(p)
    \/ StartPage1(p)
    \/ CompletePage1(p)
    \/ Launch(p)
    \/ CompletePage(p)
    \/ Gather(p)
    \/ CacheSet(p)
    \/ Handler(p)
    \/ Finish(p)

NextRace == (\E p \in Procs : StepRace(p)) \/ Tick

SpecRace == InitRace /\ [][NextRace]_vars

\* ================================================================ claims
IsHttp(r, status) == r.kind = "http" /\ r.status = status

\* A failure of one page: a network error, a status other than 200 and 404,
\* or an exception while parsing the page.
Transient(r) ==
    \/ r.kind = "exception"
    \/ r.kind = "http" /\ r.status \notin {200, 404}
    \/ /\ IsHttp(r, 200)
       /\ \E i \in 1..Len(r.items) : r.items[i].div /\ r.items[i].name = None

UserNotFound == [status |-> 404, detail |-> "user_not_found"]

\* The list of page k of request p.
PageList(p, k) == IF k = 1 THEN page1[p] ELSE results[p][k].val

\* The number of items of the pages before page k.
RECURSIVE Offset(_, _)
Offset(p, k) == IF k <= 1 THEN 0 ELSE Offset(p, k - 1) + Len(PageList(p, k - 1))

\* C1 (as claimed): once a request's aggregation has returned, its outcome is
\* UserNotFound (None) if and only if the page-1 fetch ended in HTTP 404.
C1_NotFoundIffProbe404 ==
    \A p \in Procs :
        (pc[p] \in {"handler", "done"} /\ path[p] = "miss")
        => ((movies[p] = None) <=> IsHttp(probe[p].val, 404))

C3_EmptyResultCode ==
    \A p \in Procs :
        (/\ pc[p] = "done" /\ path[p] = "miss"
         /\ IsHttp(probe[p].val, 200) /\ probe[p].val.items = <<>>)
        => response[p] =
              [status |-> 404,
               detail |-> IF Truthy(req[p].genre) /\ Truthy(req[p].decade)
                          THEN "no_movies_filters_both"
                          ELSE IF Truthy(req[p].genre) THEN "no_movies_filter_genre"
                          ELSE IF Truthy(req[p].decade) THEN "no_movies_filter_decade"
                          ELSE "no_movies"]

\* C4 (as claimed): the key a request reads and writes the cache under is
\* "watchlist:" + username [+ ":decade:" + decade] [+ ":genre:" + genre].
C4_KeyCoversFilters ==
    \A p \in Procs :
        pc[p] \in {"cache_get", "cache_set"}
        => CacheKey(req[p].username) =
              "watchlist:" \o req[p].username
              \o (IF Truthy(req[p].decade) THEN ":decade:" \o req[p].decade.val ELSE "")
              \o (IF Truthy(req[p].genre) THEN ":genre:" \o req[p].genre.val ELSE "")

\* C5: the aggregated list holds the items of page 1, then of page 2, ...,
\* then of the last page, each page's items at the offset of the pages
\* before it, whatever order the fan-out tasks completed in; a page without
\* items takes no place.
C5_PageOrder ==
    \A p \in Procs :
        (pc[p] \in {"cache_set", "handler"} /\ path[p] = "miss" /\ movies[p] # None)
        => /\ Len(movies[p].val) = Offset(p, LastPage + 1)
           /\ \A k \in 1..LastPage : \A i \in 1..Len(PageList(p, k)) :
                 movies[p].val[Offset(p, k) + i] = PageList(p, k)[i]

C5_Witness ==
    \E p \in Procs :
        /\ pc[p] = "cache_set"
        /\ Len(page1[p]) = 2 /\ results[p][2].val = <<>> /\ Len(results[p][3].val) = 2
        /\ movies[p].val = page1[p] \o results[p][3].val

\* C6 (as claimed): a transient failure of page 1 is absorbed: the other pages
\* are still fetched, the request has an aggregated list and is not answered
\* with an error code on account of the failure.
C6_TransientAbsorbed ==
    \A p \in Procs :
        (pc[p] \in {"handler", "done"} /\ path[p] = "miss" /\ Transient(probe[p].val))
        => /\ movies[p] # None
           /\ issued[p] = [i \in 1..LastPage |-> i]
           /\ response[p] # UserNotFound

C10_HitBypassesScrape ==
    /\ [](\A p \in Procs :
            path[p] = "hit" => issued[p] = <<>> /\ wrote[p] = 0 /\ probe[p] = None)
    /\ [][\A p \in Procs :
            (path[p] = "none" /\ path'[p] = "hit")
            => /\ cache' = cache
               /\ pc'[p] = "handler"
               /\ movies'[p] # None
               /\ JsonDumps(movies'[p].val) = cache[CacheKey(req[p].username)].value]_vars

C10_Witness ==
    \E p \in Procs :
        /\ pc[p] = "done" /\ path[p] = "hit" /\ issued[p] = <<>>
        /\ response[p].status = 200

\* C11: a list put under a key (json.dumps, setex) and read back at once
\* (get, "if cached_data", json.loads) is the same list, in content and in
\* order: for the list a request has just written and, as no request writes
\* the empty list (an empty page 1 returns before the setex), for the empty
\* list put into any reachable store.
C11_CacheRoundTrip ==
    /\ [](\A u \in Usernames :
            LET c == RedisSetex(cache, CacheKey(u), CACHE_EXPIRATION, JsonDumps(<<>>))
                cached == RedisGet(c, CacheKey(u))
            IN  CacheHit(cached) /\ JsonLoads(cached.val) = <<>>)
    /\ [][\A p \in Procs :
            wrote'[p] = wrote[p] + 1
            => LET cached == RedisGet(cache', CacheKey(req[p].username))
               IN  CacheHit(cached) /\ JsonLoads(cached.val) = movies[p].val]_vars

\* A request reads the entry back before any time has passed since the put.
C11_Witness ==
    \E p \in Procs :
        /\ pc[p] = "handler" /\ path[p] = "hit"
        /\ CacheKey(req[p].username) \in DOMAIN cache
        /\ cache[CacheKey(req[p].username)].ttl = CACHE_EXPIRATION
        /\ Len(movies[p].val) = 6
        /\ movies[p].val = JsonLoads(cache[CacheKey(req[p].username)].value)
        /\ movies[p].val[6].title = <<"F", "\n">>

\* A poster lookup that failed: an exception, no search result, or a first
\* result without an image path.
PosterFailure(t) ==
    \/ t.kind = "exception"
    \/ t.kind = "json" /\ t.results = <<>>
    \/ t.kind = "json" /\ t.results # <<>> /\ ~Truthy(t.results[1].poster_path)

LookedUp(p) == {sample[p][i] : i \in 1..lookups[p]}

EndsInYear(s) ==
    /\ Len(s) >= 6
    /\ s[Len(s) - 5] = "("
    /\ \A i \in (Len(s) - 4)..(Len(s) - 1) : IsDigit(s[i])
    /\ s[Len(s)] = ")"

\* The integer of the 4 digits before the final ")".
TrailingYear(s) ==
    1000 * DigitVal(s[Len(s) - 4]) + 100 * DigitVal(s[Len(s) - 3])
    + 10 * DigitVal(s[Len(s) - 2]) + DigitVal(s[Len(s) - 1])

\* The raw name without its final 6 characters and the whitespace before them.
RECURSIVE RStrip(_)
RStrip(s) ==
    IF s # <<>> /\ IsSpace(s[Len(s)]) THEN RStrip(SubSeq(s, 1, Len(s) - 1)) ELSE s

WithoutTrailingYear(s) == RStrip(SubSeq(s, 1, Len(s) - 6))

\* The raw names of the griditems page k of request p was parsed from, when
\* every griditem of the page gave a record.
RawNames(p, k) == [i \in 1..Len(Slice(site[p], k)) |-> Slice(site[p], k)[i].name.val]

\* C14 (as claimed): the record parsed from a raw name ending in "(" + 4
\* digits + ")" has that year and the name without the year and the
\* whitespace before it as title; the record parsed from any other raw name
\* has the raw name as title and no year.
C14_YearExtraction ==
    \A p \in Procs : \A k \in 1..LastPage :
        (/\ k = 1 \/ results[p][k] # Pending
         /\ Len(PageList(p, k)) = Len(Slice(site[p], k)))
        => \A i \in 1..Len(PageList(p, k)) :
              LET raw == RawNames(p, k)[i]
                  rec == PageList(p, k)[i]
              IN  IF EndsInYear(raw)
                  THEN rec.year = Some(TrailingYear(raw))
                       /\ rec.title = WithoutTrailingYear(raw)
                  ELSE rec.year = None /\ rec.title = raw

AllDone(p) == \A k \in FanOut : results[p][k] # Pending

\* C16: after the launch of the fan-out a request leaves the gather, has an
\* aggregated list, writes the cache or answers only with every task
\* completed, whether its page failed, was empty or held items; and the
\* list it then has is the concatenation over all the pages.
C16_AwaitAll ==
    /\ [](\A p \in Procs :
            /\ (path[p] = "miss" /\ pc[p] \in {"cache_set", "handler", "enrich", "done"}
                /\ movies[p] # None) => AllDone(p)
            /\ (path[p] = "miss" /\ wrote[p] > 0) => AllDone(p)
            /\ pc[p] = "cache_set" => movies[p] = Some(AllMovies(page1[p], results[p])))
    /\ [][\A p \in Procs :
            (pc[p] = "gather" /\ pc'[p] # "gather")
            => AllDone(p) /\ results'[p] = results[p] /\ cache' = cache]_vars

\* The list was written after a page that gave nothing (failed or empty) was
\* followed by a page with items.
C16_Witness ==
    \E p \in Procs :
        /\ pc[p] = "handler" /\ path[p] = "miss" /\ wrote[p] = 1
        /\ \E k, j \in FanOut :
              k < j /\ results[p][k] = Done(<<>>) /\ results[p][j].val # <<>>
        /\ Len(movies[p].val) > Len(page1[p])

KeyOf(p) == CacheKey(req[p].username)

CachedPosters(doc) == {Member(doc.elems[i], "poster") : i \in 1..Len(doc.elems)}

C19_LastWriteWins ==
    /\ [](\A p \in Procs :
            (path[p] = "miss" /\ pc[p] \in {"cache_set", "handler", "done"}
             /\ movies[p] # None)
            => movies[p].val = AllMovies(page1[p], results[p]))
    /\ [](\A p, q \in Procs :
            (/\ p # q /\ KeyOf(p) = KeyOf(q) /\ KeyOf(p) \in DOMAIN cache
             /\ path[p] = "miss" /\ wrote[p] = 1
             /\ path[q] = "miss" /\ wrote[q] = 1)
            => cache[KeyOf(p)].value
                  \in {JsonDumps(movies[p].val), JsonDumps(movies[q].val)})
    /\ [][\A p \in Procs :
            wrote'[p] = wrote[p] + 1
            => /\ cache'[KeyOf(p)].value = JsonDumps(AllMovies(page1[p], results[p]))
               /\ movies'[p] = movies[p]]_vars
    /\ [][\A k \in DOMAIN cache' :
            (k \notin DOMAIN cache \/ cache'[k].value # cache[k].value)
            => \E p \in Procs :
                  /\ wrote'[p] = wrote[p] + 1 /\ KeyOf(p) = k
                  /\ cache'[k].value = JsonDumps(movies[p].val)]_vars

\* Both requests missed, aggregated different lists and wrote them; the key
\* holds the shorter one, whole, so its writer was the last.
C19_Witness ==
    /\ req["r1"] = req["r2"] /\ req["r1"].username = "alice"
    /\ \A p \in Procs : pc[p] = "handler" /\ path[p] = "miss" /\ wrote[p] = 1
    /\ Len(movies["r1"].val) = 3 /\ Len(movies["r2"].val) = 2
    /\ KeyOf("r1") \in DOMAIN cache
    /\ cache[KeyOf("r1")].value = JsonDumps(movies["r2"].val)

====
